---- MODULE Spec2Model ----
(***************************************************************************)
(* pyguard: argument validation by decorator.                              *)
(*                                                                         *)
(* The model covers the validator registry (Guard.__registered_validators__)*)
(* the rule-application engine (Guard.validate_arguments and               *)
(* Guard._validate_argument), the decorator's wrapper and the validators   *)
(* the engine is exercised with.                                           *)
(***************************************************************************)
EXTENDS Integers, Sequences, FiniteSets, TLC

VARIABLES registry, dicts, guard_config, hints, last, validation_rules,
          iscoroutinefunction, tasks

vars == <<registry, dicts, guard_config, hints, last, validation_rules,
          iscoroutinefunction, tasks>>

(***************************************************************************)
(* Bounds of the model.                                                    *)
(***************************************************************************)
\* integer arguments range over 0..MaxInt
MaxInt == 1

(***************************************************************************)
(* Python values.  A value is a record with its type name, its integer     *)
(* payload and its string payload.                                         *)
(***************************************************************************)
NoneValue == [t |-> "NoneType", n |-> 0, s |-> ""]

IntValue(i) == [t |-> "int", n |-> i, s |-> ""]

StrValue(x) == [t |-> "str", n |-> 0, s |-> x]

\* the values a caller passes for age and for name
AgeValues == {NoneValue, StrValue("hi")} \cup {IntValue(i) : i \in 0..MaxInt}

NameValues == {NoneValue, StrValue(""), StrValue("hi"), IntValue(0)}

\* the member of the enumeration class Currency(Enum) whose name and
\* underlying value are x: Currency.USD is EnumValue("USD")
EnumValue(x) == [t |-> "Currency", n |-> 0, s |-> x]

RECURSIVE StrOfLen(_)
\* a str of n characters
StrOfLen(n) == IF n = 0 THEN "" ELSE "a" \o StrOfLen(n - 1)

\* a dict: d holds its items, <<key, value>> pairs in insertion order
DictValue(items) == [t |-> "dict", n |-> 0, s |-> "", d |-> items]

RECURSIVE FmtValue(_), FmtRepr(_), FmtDictItems(_), FmtKeys(_)
\* str(value), as an f-string renders it
FmtValue(value) ==
    CASE value.t = "NoneType" -> "None"
      [] value.t = "int" -> ToString(value.n)
      [] value.t = "str" -> value.s
      [] value.t = "dict" -> "{" \o FmtDictItems(value.d) \o "}"
      [] OTHER -> value.t \o "." \o value.s

\* repr(value), as str(list) renders the items of a list
FmtRepr(value) == IF value.t = "str" THEN "'" \o value.s \o "'" ELSE FmtValue(value)

\* the items of a dict, as str(dict) renders them
FmtDictItems(items) ==
    IF items = <<>> THEN ""
    ELSE "'" \o items[1][1] \o "': " \o FmtRepr(items[1][2])
             \o (IF Len(items) = 1 THEN "" ELSE ", " \o FmtDictItems(Tail(items)))

\* the keys of a dict, as the list inside str(value.keys()) renders them
FmtKeys(items) ==
    IF items = <<>> THEN ""
    ELSE "'" \o items[1][1] \o "'" \o (IF Len(items) = 1 THEN "" ELSE ", " \o FmtKeys(Tail(items)))

(***************************************************************************)
(* Type hints.  kind "absent" is hints.get(argument) returning None,       *)
(* "class" a plain class, "Union" a typing.Union, "UnionType" the X | Y    *)
(* syntax, "generic" a parameterized generic such as list[int].            *)
(***************************************************************************)
NoHint == [kind |-> "absent", args |-> {}, repr |-> "None"]

IntHint == [kind |-> "class", args |-> {"int"}, repr |-> "<class 'int'>"]

StrHint == [kind |-> "class", args |-> {"str"}, repr |-> "<class 'str'>"]

OptionalStrHint == [kind |-> "Union", args |-> {"str", "NoneType"}, repr |-> "typing.Optional[str]"]

IntOrNoneHint == [kind |-> "UnionType", args |-> {"int", "NoneType"}, repr |-> "int | None"]

ListIntHint == [kind |-> "generic", args |-> {"int"}, repr |-> "list[int]"]

\* the class Currency(Enum): kind "enum" is a class that is a subclass of Enum
CurrencyEnum == [kind |-> "enum", args |-> {"Currency"}, repr |-> "<enum 'Currency'>"]

\* is_hint_optional(annotation)
is_hint_optional(annotation) ==
    IF annotation.kind = "Union" /\ "NoneType" \in annotation.args
    THEN TRUE
    ELSE IF annotation.kind = "UnionType"
         THEN "NoneType" \in annotation.args
         ELSE FALSE

(***************************************************************************)
(* The expected value of a rule: an int, a bool, a (min, max) pair whose   *)
(* bounds may be None (<<>> is None, <<n>> is n), a str or a type; and the *)
(* 2-tuples (n, "text") and ((min, max), "text").                          *)
(***************************************************************************)
EInt(n) == [k |-> "int", n |-> n, b |-> FALSE, pair |-> <<>>, s |-> "", ty |-> NoHint]

EBool(b) == [k |-> "bool", n |-> 0, b |-> b, pair |-> <<>>, s |-> "", ty |-> NoHint]

EPair(lo, hi) == [k |-> "pair", n |-> 0, b |-> FALSE, pair |-> <<lo, hi>>, s |-> "", ty |-> NoHint]

EStr(x) == [k |-> "str", n |-> 0, b |-> FALSE, pair |-> <<>>, s |-> x, ty |-> NoHint]

EType(h) == [k |-> "type", n |-> 0, b |-> FALSE, pair |-> <<>>, s |-> "", ty |-> h]

\* the tuple (n, x) of an int and a str
EIntStr(n, x) == [k |-> "int_str", n |-> n, b |-> FALSE, pair |-> <<>>, s |-> x, ty |-> NoHint]

\* the tuple ((lo, hi), x) of a pair and a str
EPairStr(lo, hi, x) == [k |-> "pair_str", n |-> 0, b |-> FALSE, pair |-> <<lo, hi>>, s |-> x, ty |-> NoHint]

\* a dict of key: class entries, the expected value of schema: pair holds
\* the <<key, class>> entries in insertion order
ESchema(entries) == [k |-> "schema", n |-> 0, b |-> FALSE, pair |-> entries, s |-> "", ty |-> NoHint]

\* a list of values: pair holds the items
EList(items) == [k |-> "list", n |-> 0, b |-> FALSE, pair |-> items, s |-> "", ty |-> NoHint]

FmtBound(o) == IF o = <<>> THEN "None" ELSE ToString(o[1])

RECURSIVE FmtItems(_)
\* the items of a list, as str(list) renders them
FmtItems(items) ==
    IF items = <<>> THEN ""
    ELSE IF Len(items) = 1 THEN FmtRepr(items[1])
    ELSE FmtRepr(items[1]) \o ", " \o FmtItems(Tail(items))

RECURSIVE FmtEntries(_)
\* the entries of a schema, as str(dict) renders them
FmtEntries(entries) ==
    IF entries = <<>> THEN ""
    ELSE "'" \o entries[1][1] \o "': " \o entries[1][2].repr
             \o (IF Len(entries) = 1 THEN "" ELSE ", " \o FmtEntries(Tail(entries)))

\* str(expected), as an f-string renders it
FmtExpected(e) ==
    CASE e.k = "int" -> ToString(e.n)
      [] e.k = "bool" -> (IF e.b THEN "True" ELSE "False")
      [] e.k = "pair" -> "(" \o FmtBound(e.pair[1]) \o ", " \o FmtBound(e.pair[2]) \o ")"
      [] e.k = "str" -> e.s
      [] e.k = "list" -> "[" \o FmtItems(e.pair) \o "]"
      [] e.k = "schema" -> "{" \o FmtEntries(e.pair) \o "}"
      [] OTHER -> e.ty.repr

(***************************************************************************)
(* Results of a validator: exc is the exception that escaped ("" when      *)
(* none did), msg the message returned ("" stands for None: the engine     *)
(* only tests the result's truth).                                         *)
(***************************************************************************)
NoExc == ""

Passed == [exc |-> NoExc, msg |-> ""]

Failed(m) == [exc |-> NoExc, msg |-> m]

Raised(e) == [exc |-> e, msg |-> ""]

NotComparable(name, value) ==
    Failed(name \o " is not comparable (expected numeric type), got " \o value.t)

\* value < expected and the like raise TypeError unless both sides are numbers
Comparable(value, expected) == value.t = "int" /\ expected.k \in {"int", "bool"}

Num(expected) == IF expected.k = "bool" THEN (IF expected.b THEN 1 ELSE 0) ELSE expected.n

GreaterThan(name, expected, value) ==
    IF ~Comparable(value, expected) THEN NotComparable(name, value)
    ELSE IF value.n <= Num(expected)
         THEN Failed(name \o " must be greater than " \o FmtExpected(expected) \o ", got " \o FmtValue(value))
         ELSE Passed

\* a bug: gte fails at the bound itself
GreaterThanOrEqual_exclusive(name, expected, value) ==
    IF ~Comparable(value, expected) THEN NotComparable(name, value)
    ELSE IF value.n <= Num(expected)
         THEN Failed(name \o " must be greater than or equal " \o FmtExpected(expected) \o ", got " \o FmtValue(value))
         ELSE Passed

GreaterThanOrEqual(name, expected, value) ==
    IF ~Comparable(value, expected) THEN NotComparable(name, value)
    ELSE IF value.n < Num(expected)
         THEN Failed(name \o " must be greater than or equal " \o FmtExpected(expected) \o ", got " \o FmtValue(value))
         ELSE Passed

LessThan(name, expected, value) ==
    IF ~Comparable(value, expected) THEN NotComparable(name, value)
    ELSE IF value.n >= Num(expected)
         THEN Failed(name \o " must be less than " \o FmtExpected(expected) \o ", got " \o FmtValue(value))
         ELSE Passed

LessThanOrEqual(name, expected, value) ==
    IF ~Comparable(value, expected) THEN NotComparable(name, value)
    ELSE IF value.n > Num(expected)
         THEN Failed(name \o " must be less than or equal " \o FmtExpected(expected) \o ", got " \o FmtValue(value))
         ELSE Passed

\* isinstance(value, expected) raises TypeError for a parameterized generic
TypeValidator(name, expected, value) ==
    IF expected.k # "type" \/ expected.ty.kind \in {"generic", "absent"} THEN Raised("TypeError")
    ELSE IF value.t \notin expected.ty.args
         THEN Failed(name \o " must be of type " \o FmtExpected(expected) \o ", got " \o value.t)
         ELSE Passed

\* the expected value is not read
RequiredValidator(name, expected, value) ==
    IF value.t = "NoneType" THEN Failed(name \o " is required argument") ELSE Passed

\* the message of the except TypeError branch
NoLengthCheck(value) == Failed("Type of " \o FmtValue(value) \o " does not support length check")

\* min_length, max_length = self.expected raises outside the try unless
\* expected unpacks into two; inside the try, len(value) raises TypeError for
\* a value without a length and length < min_length (length > max_length)
\* raises it for a bound that is a tuple or a str
LengthValidator(name, expected, value) ==
    IF expected.k \in {"int", "bool"} THEN Raised("TypeError")
    ELSE IF expected.k = "type"
         THEN Raised(IF expected.ty.kind = "generic" THEN "ValueError" ELSE "TypeError")
    ELSE IF expected.k = "str" /\ Len(expected.s) # 2 THEN Raised("ValueError")
    ELSE IF expected.k \in {"list", "schema"} /\ Len(expected.pair) # 2 THEN Raised("ValueError")
    ELSE IF value.t \notin {"str", "dict"} THEN NoLengthCheck(value)
    ELSE IF expected.k \in {"str", "pair_str", "list", "schema"} THEN NoLengthCheck(value)
    ELSE LET min_length == IF expected.k = "int_str" THEN <<expected.n>> ELSE expected.pair[1]
             max_length == IF expected.k = "int_str" THEN <<>> ELSE expected.pair[2]
             length == IF value.t = "dict" THEN Len(value.d) ELSE Len(value.s)
         IN  IF min_length # <<>> /\ length < min_length[1]
             THEN Failed(name \o " must be at least " \o FmtBound(min_length) \o " characters long, got " \o ToString(length))
             ELSE IF expected.k = "int_str" THEN NoLengthCheck(value)
             ELSE IF max_length # <<>> /\ length > max_length[1]
                  THEN Failed(name \o " must be at most " \o FmtBound(max_length) \o " characters long, got " \o ToString(length))
                  ELSE Passed

\* the message of both branches of ChoicesValidator
NotAmong(name, expected, value) ==
    Failed(name \o " must be in " \o FmtExpected(expected) \o ", got " \o FmtValue(value))

\* a bug: an enumeration accepts whatever equals the value of one of its members
ChoicesValidator_by_value(name, expected, value) ==
    IF expected.k = "type" /\ expected.ty.kind = "enum"
    THEN IF value.s \notin {"USD", "EUR"} THEN NotAmong(name, expected, value) ELSE Passed
    ELSE IF \A n \in 1..Len(expected.pair) : expected.pair[n] # value
         THEN NotAmong(name, expected, value)
         ELSE Passed

\* an Enum subclass: isinstance(value, expected); a list: value not in
\* expected, by equality with an item; a dict: by equality with a key, and
\* hashing the value raises TypeError for a dict; value not in expected raises
\* TypeError for an expected that is no container (a number, a class that is
\* no Enum)
ChoicesValidator(name, expected, value) ==
    IF expected.k = "type" /\ expected.ty.kind = "enum"
    THEN IF value.t \notin expected.ty.args THEN NotAmong(name, expected, value) ELSE Passed
    ELSE IF expected.k = "list"
         THEN IF \A n \in 1..Len(expected.pair) : expected.pair[n] # value
              THEN NotAmong(name, expected, value)
              ELSE Passed
    ELSE IF expected.k = "schema" /\ value.t # "dict"
         THEN IF value.t = "str" /\ \E n \in 1..Len(expected.pair) : expected.pair[n][1] = value.s
              THEN Passed
              ELSE NotAmong(name, expected, value)
    ELSE Raised("TypeError")

\* the keys of a dict
KeysOf(items) == {items[n][1] : n \in 1..Len(items)}

\* d[key]
Lookup(items, key) == items[CHOOSE n \in 1..Len(items) : items[n][1] = key][2]

\* the message for a key of the schema that the dict lacks
MissingKey(name, key, value) ==
    Failed(name \o " must contain key: " \o key \o ", got dict_keys([" \o FmtKeys(value.d) \o "])")

\* the message for a key whose value is no instance of the class of the schema
WrongType(name, key, expected_type, value) ==
    Failed(name \o "." \o key \o " must be of type " \o expected_type.repr
               \o ", got " \o Lookup(value.d, key).t)

\* a bug: only the presence of the keys is checked, not the type of their values
schema_from_keys_only(name, entries, value, i) ==
    LET missing == {n \in i..Len(entries) : entries[n][1] \notin KeysOf(value.d)}
    IN  IF missing = {} THEN Passed
        ELSE MissingKey(name, entries[CHOOSE n \in missing : \A m \in missing : n <= m][1], value)

RECURSIVE schema_from(_, _, _, _)
\* the loop over self.expected.items() from the i-th entry on: the first key
\* that is missing or wrongly typed ends it with its message;
\* isinstance(value[key], expected_type) raises TypeError for a
\* parameterized generic
schema_from(name, entries, value, i) ==
    IF i > Len(entries) THEN Passed
    ELSE LET key == entries[i][1]
             expected_type == entries[i][2]
         IN  IF key \notin KeysOf(value.d) THEN MissingKey(name, key, value)
             ELSE IF expected_type.kind \in {"generic", "absent"} THEN Raised("TypeError")
             ELSE IF Lookup(value.d, key).t \notin expected_type.args
                  THEN WrongType(name, key, expected_type, value)
                  ELSE schema_from(name, entries, value, i + 1)

\* a value that is no dict is turned down before expected is read;
\* self.expected.items() raises AttributeError for an expected that is no dict
SchemaValidator(name, expected, value) ==
    IF value.t # "dict" THEN Failed(name \o " must be a dictionary, got " \o value.t)
    ELSE IF expected.k # "schema" THEN Raised("AttributeError")
    ELSE schema_from(name, expected.pair, value, 1)

\* patterns re.compile rejects
MalformedPatterns == {"[", "("}

\* re.compile(self.expected) in __init__ raises re.error for a malformed
\* pattern and TypeError for an expected that is no str; a pattern without
\* metacharacters matches the values that start with it
RegexValidator(name, expected, value) ==
    IF expected.k # "str" THEN Raised("TypeError")
    ELSE IF expected.s \in MalformedPatterns THEN Raised("re.error")
    ELSE IF value.t # "str" THEN Failed(name \o " must be a string, got " \o value.t)
    ELSE IF Len(value.s) < Len(expected.s) \/ SubSeq(value.s, 1, Len(expected.s)) # expected.s
         THEN Failed(name \o " must match pattern '" \o expected.s \o "', got " \o value.s)
         ELSE Passed

\* value % 2 raises TypeError for None and for a str
EvenValidator(name, expected, value) ==
    IF value.t # "int" THEN Raised("TypeError")
    ELSE IF value.n % 2 # 0 THEN Failed(name \o " must be even") ELSE Passed

\* value <= 0 raises TypeError for None and for a str
PositiveValidator(name, expected, value) ==
    IF value.t # "int" THEN Raised("TypeError")
    ELSE IF value.n <= 0 THEN Failed(name \o " must be positive") ELSE Passed

\* validator_class(name=argument, expected=expected, bound=bound).validate(value=value)
validate(validator_class, name, expected, value) ==
    CASE validator_class = "LessThan" -> LessThan(name, expected, value)
      [] validator_class = "LessThanOrEqual" -> LessThanOrEqual(name, expected, value)
      [] validator_class = "GreaterThan" -> GreaterThan(name, expected, value)
      [] validator_class = "GreaterThanOrEqual" -> GreaterThanOrEqual(name, expected, value)
      [] validator_class = "TypeValidator" -> TypeValidator(name, expected, value)
      [] validator_class = "RequiredValidator" -> RequiredValidator(name, expected, value)
      [] validator_class = "LengthValidator" -> LengthValidator(name, expected, value)
      [] validator_class = "ChoicesValidator" -> ChoicesValidator(name, expected, value)
      [] validator_class = "RegexValidator" -> RegexValidator(name, expected, value)
      [] validator_class = "SchemaValidator" -> SchemaValidator(name, expected, value)
      [] validator_class = "EvenValidator" -> EvenValidator(name, expected, value)
      [] validator_class = "PositiveValidator" -> PositiveValidator(name, expected, value)

(***************************************************************************)
(* The registry: Guard.__registered_validators__, keyword -> class.        *)
(***************************************************************************)
EmptyRegistry == <<>>

NoValidator == "None"

Done(reg) == [exc |-> NoExc, registry |-> reg]

\* a bug: a keyword already present is bound anew
register_validator_overwriting(reg, keyword, validator) ==
    Done((keyword :> validator) @@ reg)

\* Guard.register_validator(keyword)(validator)
register_validator(reg, keyword, validator) ==
    IF keyword \in DOMAIN reg
    THEN [exc |-> "GuardConfigurationException", registry |-> reg]
    ELSE Done((keyword :> validator) @@ reg)

\* a bug: the lookup's None is returned for an absent keyword
get_validator_or_none(reg, keyword) ==
    [exc |-> NoExc, validator |-> IF keyword \in DOMAIN reg THEN reg[keyword] ELSE NoValidator]

\* Guard.get_validator(keyword)
get_validator(reg, keyword) ==
    LET validator == IF keyword \in DOMAIN reg THEN reg[keyword] ELSE NoValidator
    IN  IF validator = NoValidator
        THEN [exc |-> "GuardConfigurationException", validator |-> NoValidator]
        ELSE [exc |-> NoExc, validator |-> validator]

\* the registrations of register_default_validators, in the order it makes them
DefaultValidators ==
    << <<"lt", "LessThan">>, <<"lte", "LessThanOrEqual">>, <<"gt", "GreaterThan">>,
       <<"gte", "GreaterThanOrEqual">>, <<"choices", "ChoicesValidator">>,
       <<"type", "TypeValidator">>, <<"required", "RequiredValidator">>,
       <<"keys", "RequiredKeyValidator">>, <<"schema", "SchemaValidator">>,
       <<"length", "LengthValidator">>, <<"regex", "RegexValidator">>,
       <<"email", "EmailValidator">>, <<"url", "URLValidator">> >>

RECURSIVE register_defaults_from(_, _)
\* the statements of register_default_validators from the i-th on: the first
\* registration that raises ends the run
register_defaults_from(reg, i) ==
    IF i > Len(DefaultValidators) THEN Done(reg)
    ELSE LET r == register_validator(reg, DefaultValidators[i][1], DefaultValidators[i][2])
         IN  IF r.exc # NoExc THEN r ELSE register_defaults_from(r.registry, i + 1)

\* a bug: the registry is emptied before the built-ins are registered
register_default_validators_fresh(reg) == register_defaults_from(EmptyRegistry, 1)

\* register_default_validators()
register_default_validators(reg) == register_defaults_from(reg, 1)

(***************************************************************************)
(* Rule dictionaries.  A dict is the sequence of its items in insertion    *)
(* order; every key occurs once.                                           *)
(***************************************************************************)
Rule(kw, expected) == [kw |-> kw, expected |-> expected]

Keys(d) == {d[i].kw : i \in 1..Len(d)}

\* d[kw] = expected: an existing key keeps its place, a new key goes last
DictSet(d, kw, expected) ==
    IF kw \in Keys(d)
    THEN [i \in 1..Len(d) |-> IF d[i].kw = kw THEN Rule(kw, expected) ELSE d[i]]
    ELSE Append(d, Rule(kw, expected))

\* guard_config.get(argument, {}): 0 stands for an argument without an entry
NoDict == 0

(***************************************************************************)
(* The engine.                                                             *)
(***************************************************************************)
RECURSIVE validate_argument_first_error(_, _, _, _, _, _)
\* a bug: the loop returns at the first rule that fails
validate_argument_first_error(reg, configuration, argument, value, i, acc) ==
    IF i > Len(configuration) THEN acc
    ELSE LET rule_name == configuration[i].kw
             expected == configuration[i].expected
             got == get_validator(reg, rule_name)
         IN  IF got.exc # NoExc THEN [acc EXCEPT !.exc = got.exc]
             ELSE LET error == validate(got.validator, argument, expected, value)
                      ran == Append(acc.evaluated, <<argument, rule_name>>)
                  IN  IF error.exc # NoExc
                      THEN [acc EXCEPT !.exc = error.exc, !.evaluated = ran]
                      ELSE IF error.msg # ""
                           THEN [acc EXCEPT !.evaluated = ran, !.errors = Append(acc.errors, error.msg)]
                           ELSE validate_argument_first_error(reg, configuration, argument, value, i + 1,
                                    [acc EXCEPT !.evaluated = ran])

RECURSIVE validate_argument_skipping(_, _, _, _, _, _)
\* a bug: a keyword that is not registered is passed over
validate_argument_skipping(reg, configuration, argument, value, i, acc) ==
    IF i > Len(configuration) THEN acc
    ELSE LET rule_name == configuration[i].kw
             expected == configuration[i].expected
             got == get_validator(reg, rule_name)
         IN  IF got.exc # NoExc
             THEN validate_argument_skipping(reg, configuration, argument, value, i + 1, acc)
             ELSE LET error == validate(got.validator, argument, expected, value)
                      ran == Append(acc.evaluated, <<argument, rule_name>>)
                  IN  IF error.exc # NoExc
                      THEN [acc EXCEPT !.exc = error.exc, !.evaluated = ran]
                      ELSE validate_argument_skipping(reg, configuration, argument, value, i + 1,
                               [acc EXCEPT !.evaluated = ran,
                                           !.errors = IF error.msg # ""
                                                      THEN Append(acc.errors, error.msg)
                                                      ELSE acc.errors])

RECURSIVE validate_argument_from(_, _, _, _, _, _)
\* the loop of Guard._validate_argument from the i-th item on; acc holds the
\* errors list and the log of the rules whose validator ran
validate_argument_from(reg, configuration, argument, value, i, acc) ==
    IF i > Len(configuration) THEN acc
    ELSE LET rule_name == configuration[i].kw
             expected == configuration[i].expected
             got == get_validator(reg, rule_name)
         IN  IF got.exc # NoExc THEN [acc EXCEPT !.exc = got.exc]
             ELSE LET error == validate(got.validator, argument, expected, value)
                      ran == Append(acc.evaluated, <<argument, rule_name>>)
                  IN  IF error.exc # NoExc
                      THEN [acc EXCEPT !.exc = error.exc, !.evaluated = ran]
                      ELSE validate_argument_from(reg, configuration, argument, value, i + 1,
                               [acc EXCEPT !.evaluated = ran,
                                           !.errors = IF error.msg # ""
                                                      THEN Append(acc.errors, error.msg)
                                                      ELSE acc.errors])

\* Guard._validate_argument(configuration, argument, value, bound)
validate_argument(reg, configuration, argument, value) ==
    validate_argument_from(reg, configuration, argument, value, 1,
        [exc |-> NoExc, errors |-> <<>>, evaluated |-> <<>>])

\* a bug: a required rule found in the dict is taken out
inject_rules_toggling(argument_configuration, argument_hints) ==
    LET with_required ==
            IF argument_hints.kind # "absent" /\ ~is_hint_optional(argument_hints)
            THEN IF "required" \in Keys(argument_configuration)
                 THEN SelectSeq(argument_configuration, LAMBDA r : r.kw # "required")
                 ELSE DictSet(argument_configuration, "required", EBool(TRUE))
            ELSE argument_configuration
    IN  IF "type" \notin Keys(with_required) /\ argument_hints.kind # "absent"
        THEN DictSet(with_required, "type", EType(argument_hints))
        ELSE with_required

\* a bug: the type rule is written from the hint whether or not the dict has one
inject_rules_own_type(argument_configuration, argument_hints) ==
    LET with_required ==
            IF argument_hints.kind # "absent" /\ ~is_hint_optional(argument_hints)
            THEN DictSet(argument_configuration, "required", EBool(TRUE))
            ELSE argument_configuration
    IN  IF argument_hints.kind # "absent"
        THEN DictSet(with_required, "type", EType(argument_hints))
        ELSE with_required

\* the two injections of Guard.validate_arguments into an argument's dict
inject_rules(argument_configuration, argument_hints) ==
    LET with_required ==
            IF argument_hints.kind # "absent" /\ ~is_hint_optional(argument_hints)
            THEN DictSet(argument_configuration, "required", EBool(TRUE))
            ELSE argument_configuration
    IN  IF "type" \notin Keys(with_required) /\ argument_hints.kind # "absent"
        THEN DictSet(with_required, "type", EType(argument_hints))
        ELSE with_required

\* a bug: the mapping is replaced by the last failing argument's entry
record_errors_replacing(validation_errors, argument, argument_errors) ==
    IF argument_errors # <<>>
    THEN (argument :> argument_errors)
    ELSE validation_errors

\* a bug: the entry is written whether or not the list is empty
record_errors_always(validation_errors, argument, argument_errors) ==
    (argument :> argument_errors) @@ validation_errors

\* if argument_errors := ...: validation_errors[argument] = argument_errors
record_errors(validation_errors, argument, argument_errors) ==
    IF argument_errors # <<>>
    THEN (argument :> argument_errors) @@ validation_errors
    ELSE validation_errors

RECURSIVE validate_arguments_from(_, _, _, _, _, _)
\* the loop of Guard.validate_arguments from the i-th bound argument on.
\* bound is the sequence of (argument, value) pairs; st holds the heap of
\* dict objects, validation_errors and the log of the validators that ran.
validate_arguments_from(reg, bound, arg_hints, config, i, st) ==
    IF i > Len(bound) THEN st
    ELSE LET argument == bound[i][1]
             value == bound[i][2]
             id == config[argument]
             argument_configuration ==
                 inject_rules(IF id = NoDict THEN <<>> ELSE st.dicts[id], arg_hints[argument])
             heap == IF id = NoDict THEN st.dicts
                     ELSE [st.dicts EXCEPT ![id] = argument_configuration]
             r == validate_argument(reg, argument_configuration, argument, value)
             ran == st.evaluated \o r.evaluated
         IN  IF r.exc # NoExc
             THEN [st EXCEPT !.exc = r.exc, !.dicts = heap, !.evaluated = ran]
             ELSE validate_arguments_from(reg, bound, arg_hints, config, i + 1,
                      [st EXCEPT !.dicts = heap, !.evaluated = ran,
                                 !.errors = record_errors(st.errors, argument, r.errors)])

\* a bug: an exception that ends the pass carries the messages collected so far
validate_arguments_keeping_errors(reg, heap0, function_name, bound, arg_hints, config) ==
    LET st == validate_arguments_from(reg, bound, arg_hints, config, 1,
                  [exc |-> NoExc, errors |-> <<>>, dicts |-> heap0, evaluated |-> <<>>])
    IN  IF st.exc # NoExc
        THEN [exc |-> st.exc, function_name |-> function_name, errors |-> st.errors,
              dicts |-> st.dicts, evaluated |-> st.evaluated]
        ELSE IF st.errors # <<>>
             THEN [exc |-> "GuardValidationError", function_name |-> function_name,
                   errors |-> st.errors, dicts |-> st.dicts, evaluated |-> st.evaluated]
             ELSE [exc |-> NoExc, function_name |-> "", errors |-> <<>>,
                   dicts |-> st.dicts, evaluated |-> st.evaluated]

\* a bug: the error is raised only when more than one argument failed
validate_arguments_many(reg, heap0, function_name, bound, arg_hints, config) ==
    LET st == validate_arguments_from(reg, bound, arg_hints, config, 1,
                  [exc |-> NoExc, errors |-> <<>>, dicts |-> heap0, evaluated |-> <<>>])
    IN  IF st.exc # NoExc
        THEN [exc |-> st.exc, function_name |-> "", errors |-> <<>>,
              dicts |-> st.dicts, evaluated |-> st.evaluated]
        ELSE IF Cardinality(DOMAIN st.errors) > 1
             THEN [exc |-> "GuardValidationError", function_name |-> function_name,
                   errors |-> st.errors, dicts |-> st.dicts, evaluated |-> st.evaluated]
             ELSE [exc |-> NoExc, function_name |-> "", errors |-> <<>>,
                   dicts |-> st.dicts, evaluated |-> st.evaluated]

\* Guard.validate_arguments(function_name, bound, hints, guard_config), run on
\* the heap of dict objects heap0.  The result holds the exception raised
\* (exc, NoExc for a normal return), the GuardValidationError's fields, the
\* heap as the call leaves it and the log of the validators that ran.
validate_arguments(reg, heap0, function_name, bound, arg_hints, config) ==
    LET st == validate_arguments_from(reg, bound, arg_hints, config, 1,
                  [exc |-> NoExc, errors |-> <<>>, dicts |-> heap0, evaluated |-> <<>>])
    IN  IF st.exc # NoExc
        THEN [exc |-> st.exc, function_name |-> "", errors |-> <<>>,
              dicts |-> st.dicts, evaluated |-> st.evaluated]
        ELSE IF st.errors # <<>>
             THEN [exc |-> "GuardValidationError", function_name |-> function_name,
                   errors |-> st.errors, dicts |-> st.dicts, evaluated |-> st.evaluated]
             ELSE [exc |-> NoExc, function_name |-> "", errors |-> <<>>,
                   dicts |-> st.dicts, evaluated |-> st.evaluated]

(***************************************************************************)
(* The guarded functions.  register_user(age, name) and set_age(age) are   *)
(* decorated with @guard; the decorator keeps the signature, the type      *)
(* hints and the validation_rules it was given.  Dict object 1 is the rule *)
(* dict both decorators were given for age, dict object 2 the one given    *)
(* for name.  validation_rules keeps the items each dict object had when   *)
(* the decorator was given it: what the caller wrote.                      *)
(***************************************************************************)
Functions == {"register_user", "set_age"}

\* inspect.signature(f): the parameters in order
function_signature == [register_user |-> <<"age", "name">>, set_age |-> <<"age">>]

DictIds == {1, 2}

\* rule dicts a caller may write for age
AgeRules ==
    { <<>>,
      <<Rule("gte", EInt(1)), Rule("lte", EInt(0))>>,
      <<Rule("gt", EInt(0)), Rule("even", EBool(TRUE))>>,
      <<Rule("even", EBool(TRUE)), Rule("lt", EInt(1))>>,
      <<Rule("required", EBool(FALSE)), Rule("lte", EInt(0))>>,
      <<Rule("type", EType(StrHint)), Rule("startswith", EStr("h"))>> }

\* rule dicts a caller may write for name
NameRules ==
    { <<Rule("length", EPair(<<1>>, <<2>>))>>,
      <<Rule("length", EPair(<<>>, <<1>>)), Rule("lte", EInt(1))>> }

\* the type hints of register_user's parameters (age, name): the signatures
\* def register_user(age: int, name: Optional[str]), (age: int | None,
\* name: str) and (age, name)
Signatures ==
    { [age |-> IntHint, name |-> OptionalStrHint],
      [age |-> IntOrNoneHint, name |-> StrHint],
      [age |-> NoHint, name |-> NoHint] }

\* signature.bind(*args, **kwargs); apply_defaults(): the (argument, value)
\* pairs in the order of the signature
bind(f, args) == [i \in 1..Len(function_signature[f]) |-> <<function_signature[f][i], args[i]>>]

ArgumentValues(argument) == IF argument = "age" THEN AgeValues ELSE NameValues

\* the positional arguments of a call of f
Calls(f) ==
    {args \in [1..Len(function_signature[f]) -> AgeValues \cup NameValues] :
        \A i \in 1..Len(function_signature[f]) : args[i] \in ArgumentValues(function_signature[f][i])}

\* what the last operation did: op and its inputs, the exception it raised
\* (NoExc when it returned), the error's fields and the state it started from
Outcome(op, kw, validator, exc) ==
    [op |-> op, kw |-> kw, validator |-> validator, exc |-> exc, fn |-> "",
     bound |-> <<>>, function_name |-> "", errors |-> <<>>, evaluated |-> <<>>,
     body_ran |-> FALSE, dicts_before |-> dicts, registry_before |-> registry]

Init ==
    /\ registry = register_default_validators(EmptyRegistry).registry
    /\ \E age_rules \in AgeRules, name_rules \in NameRules \cup {<<>>} :
           /\ dicts = [id \in DictIds |-> IF id = 1 THEN age_rules ELSE name_rules]
           /\ validation_rules = dicts
           \* @guard(age=..., name=...) or, with no rules for name, @guard(age=...)
           /\ guard_config = [register_user |-> [age |-> 1, name |-> IF name_rules = <<>> THEN NoDict ELSE 2],
                              set_age |-> [age |-> 1]]
    /\ \E signature \in Signatures :
           hints = [register_user |-> signature, set_age |-> [age |-> StrHint]]
    /\ last = Outcome("import", "", NoValidator, NoExc)
    /\ iscoroutinefunction = [f \in Functions |-> FALSE]
    /\ tasks = <<>>

\* import, then @guard(age=..., name=...) on register_user and @guard() on
\* set_age: no rule dict is given to two decorators
InitOwnDicts ==
    /\ registry = register_default_validators(EmptyRegistry).registry
    /\ \E age_rules \in AgeRules, name_rules \in NameRules \cup {<<>>} :
           /\ dicts = [id \in DictIds |-> IF id = 1 THEN age_rules ELSE name_rules]
           /\ validation_rules = dicts
           /\ guard_config = [register_user |-> [age |-> 1, name |-> IF name_rules = <<>> THEN NoDict ELSE 2],
                              set_age |-> [age |-> NoDict]]
    /\ \E signature \in Signatures :
           hints = [register_user |-> signature, set_age |-> [age |-> StrHint]]
    /\ last = Outcome("import", "", NoValidator, NoExc)
    /\ iscoroutinefunction = [f \in Functions |-> FALSE]
    /\ tasks = <<>>

\* rule dicts whose values are written as (expected, "text") tuples, next to
\* a plain (min, max) length rule
TupleAgeRules ==
    { <<Rule("gte", EIntStr(1, "The customer must be of legal age."))>>,
      <<Rule("length", EPair(<<1>>, <<2>>))>> }

TupleNameRules ==
    { <<Rule("length", EPairStr(<<1>>, <<2>>, "Name must be between 1 and 2 characters long."))>>,
      <<Rule("length", EPair(<<1>>, <<2>>))>> }

\* import, then @guard(age=..., name=...) over rule dicts with tuple values
InitTuples ==
    /\ registry = register_default_validators(EmptyRegistry).registry
    /\ \E age_rules \in TupleAgeRules, name_rules \in TupleNameRules :
           /\ dicts = [id \in DictIds |-> IF id = 1 THEN age_rules ELSE name_rules]
           /\ validation_rules = dicts
    /\ guard_config = [register_user |-> [age |-> 1, name |-> 2], set_age |-> [age |-> 1]]
    /\ \E signature \in Signatures :
           hints = [register_user |-> signature, set_age |-> [age |-> StrHint]]
    /\ last = Outcome("import", "", NoValidator, NoExc)
    /\ iscoroutinefunction = [f \in Functions |-> FALSE]
    /\ tasks = <<>>

\* rule dicts with a keyword that is not registered: alone, after a rule
\* that passes or fails, and after a rule whose validator raises
UnregisteredAgeRules ==
    { <<Rule("gt", EInt(0))>>,
      <<Rule("gt", EInt(0)), Rule("startswith", EStr("h"))>>,
      <<Rule("type", EType(ListIntHint)), Rule("startswith", EStr("h"))>> }

UnregisteredNameRules ==
    { <<Rule("startswith", EStr("h"))>>,
      <<Rule("length", EPair(<<1>>, <<2>>)), Rule("even", EBool(TRUE))>> }

\* import, then @guard(age=..., name=...) on register_user(age, name) and on
\* set_age(age), which has no parameter called name: bound.arguments never
\* yields name there and the dict given for it is never read
InitUnregistered ==
    /\ registry = register_default_validators(EmptyRegistry).registry
    /\ \E age_rules \in UnregisteredAgeRules, name_rules \in UnregisteredNameRules :
           /\ dicts = [id \in DictIds |-> IF id = 1 THEN age_rules ELSE name_rules]
           /\ validation_rules = dicts
    /\ guard_config = [register_user |-> [age |-> 1, name |-> 2],
                       set_age |-> [age |-> 1, name |-> 2]]
    /\ \E signature \in Signatures :
           hints = [register_user |-> signature, set_age |-> [age |-> StrHint]]
    /\ last = Outcome("import", "", NoValidator, NoExc)
    /\ iscoroutinefunction = [f \in Functions |-> FALSE]
    /\ tasks = <<>>

\* a bug: the keywords are resolved in the registry as it was when the
\* function was decorated
Call_at_decoration(f, args) ==
    \E r \in {validate_arguments(register_default_validators(EmptyRegistry).registry, dicts, f,
                                  bind(f, args), hints[f], guard_config[f])} :
        /\ dicts' = r.dicts
        /\ last' = [Outcome("call", "", NoValidator, r.exc) EXCEPT
                       !.fn = f, !.bound = bind(f, args), !.function_name = r.function_name,
                       !.errors = r.errors, !.evaluated = r.evaluated,
                       !.body_ran = (r.exc = NoExc)]
        /\ UNCHANGED <<registry, guard_config, hints, validation_rules, iscoroutinefunction, tasks>>

\* a call of the wrapper the decorator returned for f: bind the arguments,
\* validate them, then run the body of f
Call(f, args) ==
    \E r \in {validate_arguments(registry, dicts, f, bind(f, args), hints[f], guard_config[f])} :
        /\ dicts' = r.dicts
        /\ last' = [Outcome("call", "", NoValidator, r.exc) EXCEPT
                       !.fn = f, !.bound = bind(f, args), !.function_name = r.function_name,
                       !.errors = r.errors, !.evaluated = r.evaluated,
                       !.body_ran = (r.exc = NoExc)]
        /\ UNCHANGED <<registry, guard_config, hints, validation_rules, iscoroutinefunction, tasks>>

\* keywords and classes a caller registers after import
RegisterKeywords == {"email", "even"}

RegisterValidators == {"EvenValidator", "PositiveValidator"}

\* @Guard.register_validator(keyword) applied to a validator class
Register(keyword, validator) ==
    LET r == register_validator(registry, keyword, validator)
    IN  /\ registry' = r.registry
        /\ last' = Outcome("register", keyword, validator, r.exc)
        /\ UNCHANGED <<dicts, guard_config, hints, validation_rules, iscoroutinefunction, tasks>>

ResolveKeywords == {"gte", "email", "even", "startswith"}

\* a caller's Guard.get_validator(keyword)
Resolve(keyword) ==
    LET r == get_validator(registry, keyword)
    IN  /\ last' = Outcome("resolve", keyword, r.validator, r.exc)
        /\ UNCHANGED <<registry, dicts, guard_config, hints, validation_rules, iscoroutinefunction, tasks>>

\* register_default_validators() called again after import
RegisterDefaults ==
    LET r == register_default_validators(registry)
    IN  /\ registry' = r.registry
        /\ last' = Outcome("register_defaults", "", NoValidator, r.exc)
        /\ UNCHANGED <<dicts, guard_config, hints, validation_rules, iscoroutinefunction, tasks>>

Next ==
    \/ \E f \in Functions : \E args \in Calls(f) : Call(f, args)
    \/ \E keyword \in RegisterKeywords, validator \in RegisterValidators : Register(keyword, validator)
    \/ \E keyword \in ResolveKeywords : Resolve(keyword)
    \/ RegisterDefaults

Spec == Init /\ [][Next]_vars

SpecTuples == InitTuples /\ [][Next]_vars

SpecUnregistered == InitUnregistered /\ [][Next]_vars

SpecOwnDicts == InitOwnDicts /\ [][Next]_vars

(***************************************************************************)
(* The built-in validators on their own: a rule's keyword is resolved, the *)
(* validator constructed with the rule's expected value and validate       *)
(* called with a value, as one turn of the loop of _validate_argument does *)
(* and as a caller holding the class may do.                               *)
(***************************************************************************)
MaxLen == 2

\* a bound of length: None or a size
LengthBounds == {<<>>} \cup {<<n>> : n \in 0..MaxLen}

\* the enumeration and the list of the choices tests
CurrencyList == EList(<<StrValue("USD"), StrValue("EUR")>>)

\* schemas: one key, two keys, and a key whose class is a parameterized generic
SchemaRules ==
    { Rule("schema", ESchema(<< <<"host", StrHint>> >>)),
      Rule("schema", ESchema(<< <<"host", StrHint>>, <<"port", IntHint>> >>)),
      Rule("schema", ESchema(<< <<"host", ListIntHint>> >>)) }

\* dicts with none, one or both of the keys host and port, rightly and
\* wrongly typed
SchemaValues ==
    { DictValue(<<>>),
      DictValue(<< <<"host", StrValue("h")>> >>),
      DictValue(<< <<"host", IntValue(1)>> >>),
      DictValue(<< <<"port", IntValue(1)>> >>),
      DictValue(<< <<"host", StrValue("h")>>, <<"port", IntValue(1)>> >>),
      DictValue(<< <<"host", StrValue("h")>>, <<"port", StrValue("p")>> >>) }

\* the rules validated: comparisons with every bound, length with every pair
\* of bounds, choices over an enumeration and over a list, type over a class,
\* a parameterized generic and an enumeration, regex with good and with
\* malformed patterns, required, schema
ValidatorRules ==
    {Rule(kw, EInt(n)) : kw \in {"gt", "gte", "lt", "lte"}, n \in 0..MaxInt}
        \cup {Rule("length", EPair(lo, hi)) : lo \in LengthBounds, hi \in LengthBounds}
        \cup {Rule("choices", EType(CurrencyEnum)), Rule("choices", CurrencyList)}
        \cup {Rule("type", EType(StrHint)), Rule("type", EType(ListIntHint)),
              Rule("type", EType(CurrencyEnum))}
        \cup {Rule("regex", EStr("a")), Rule("regex", EStr("1")), Rule("regex", EStr("["))}
        \cup {Rule("required", EBool(TRUE))}
        \cup SchemaRules

\* the values validated: None, numbers up to one past the largest bound,
\* strings up to one longer than the largest bound, a member of the
\* enumeration and the strings "USD" and "PLN"
ValidatorValues ==
    {NoneValue, EnumValue("USD"), StrValue("USD"), StrValue("PLN")}
        \cup {IntValue(i) : i \in 0..(MaxInt + 1)}
        \cup {StrValue(StrOfLen(n)) : n \in 0..(MaxLen + 1)}
        \cup SchemaValues

\* what the last validation was given and what it yielded
Validation(op, rule, value, result) ==
    [op |-> op, kw |-> rule.kw, expected |-> rule.expected, value |-> value,
     exc |-> result.exc, msg |-> result.msg]

\* import, and no function decorated
InitValidators ==
    /\ registry = register_default_validators(EmptyRegistry).registry
    /\ dicts = <<>>
    /\ validation_rules = <<>>
    /\ guard_config = <<>>
    /\ hints = <<>>
    /\ last = Validation("import", Rule("", EBool(FALSE)), NoneValue, Passed)
    /\ iscoroutinefunction = <<>>
    /\ tasks = <<>>

\* validator_class = Guard.get_validator(keyword);
\* validator_class(name=..., expected=...).validate(value=value)
Validate(rule, value) ==
    \E r \in {validate(get_validator(registry, rule.kw).validator, "value", rule.expected, value)} :
        /\ last' = Validation("validate", rule, value, r)
        /\ UNCHANGED <<registry, dicts, guard_config, hints, validation_rules, iscoroutinefunction, tasks>>

NextValidators == \E rule \in ValidatorRules, value \in ValidatorValues : Validate(rule, value)

SpecValidators == InitValidators /\ [][NextValidators]_vars

(***************************************************************************)
(* Calls in flight.  Two calls of wrapped functions run at once, each in   *)
(* a thread of its own (a sync wrapper) or as a coroutine on one event     *)
(* loop (an async wrapper).  A step is one operation on a rule dict: the   *)
(* write of required, the test for type, the write of type, the creation   *)
(* of the items iterator and each of its steps.  pc is the place of a call *)
(* in the wrapper and in Guard.validate_arguments.                         *)
(***************************************************************************)
TaskIds == {1, 2}

\* the places between the start of validate_arguments and the call of f
Validating ==
    {"required", "type_test", "type_write", "items", "next", "record", "finish", "validated"}

\* a call that has not been made
NoTask ==
    [pc |-> "idle", fn |-> "", args |-> <<>>, bound |-> <<>>, i |-> 0, j |-> 0, size |-> 0,
     fresh |-> <<>>, errors |-> <<>>, validation_errors |-> <<>>, exc |-> NoExc,
     passes |-> 0, validated |-> FALSE, body_runs |-> 0, dicts_at_start |-> <<>>]

\* rule dicts for age: the second has a keyword that is not registered
StepAgeRules ==
    { <<Rule("gt", EInt(0))>>,
      <<Rule("gt", EInt(0)), Rule("even", EBool(TRUE))>> }

StepNameRules == { <<Rule("length", EPair(<<1>>, <<2>>))>> }

\* the positional arguments of the calls in flight
StepCalls(f) ==
    IF f = "register_user"
    THEN { <<IntValue(0), StrValue("hi")>>, <<IntValue(1), StrValue("hi")>> }
    ELSE { <<StrValue("hi")>>, <<IntValue(1)>> }

\* import, then @guard(age=..., name=...) on register_user and @guard(age=...)
\* on set_age with the same dict object for age; both are def functions or
\* both async def functions
InitSteps ==
    /\ registry = register_default_validators(EmptyRegistry).registry
    /\ \E age_rules \in StepAgeRules, name_rules \in StepNameRules :
           /\ dicts = [id \in DictIds |-> IF id = 1 THEN age_rules ELSE name_rules]
           /\ validation_rules = dicts
    /\ guard_config = [register_user |-> [age |-> 1, name |-> 2], set_age |-> [age |-> 1]]
    /\ \E signature \in Signatures :
           hints = [register_user |-> signature, set_age |-> [age |-> StrHint]]
    /\ last = Outcome("import", "", NoValidator, NoExc)
    /\ \E coroutine \in BOOLEAN : iscoroutinefunction = [f \in Functions |-> coroutine]
    /\ tasks = [t \in TaskIds |-> NoTask]

\* as InitSteps, with @guard() on set_age: no rule dict is given to two
\* decorators, and set_age's argument gets a fresh {} in every call
InitStepsOwnDicts ==
    /\ registry = register_default_validators(EmptyRegistry).registry
    /\ \E age_rules \in StepAgeRules, name_rules \in StepNameRules :
           /\ dicts = [id \in DictIds |-> IF id = 1 THEN age_rules ELSE name_rules]
           /\ validation_rules = dicts
    /\ guard_config = [register_user |-> [age |-> 1, name |-> 2], set_age |-> [age |-> NoDict]]
    /\ \E signature \in Signatures :
           hints = [register_user |-> signature, set_age |-> [age |-> StrHint]]
    /\ last = Outcome("import", "", NoValidator, NoExc)
    /\ \E coroutine \in BOOLEAN : iscoroutinefunction = [f \in Functions |-> coroutine]
    /\ tasks = [t \in TaskIds |-> NoTask]

\* the argument the call is at, its value, its hint and its dict object
Argument(r) == r.bound[r.i][1]

Value(r) == r.bound[r.i][2]

ArgumentHints(r) == hints[r.fn][Argument(r)]

ConfigId(r) == guard_config[r.fn][Argument(r)]

\* argument_configuration: the caller's dict object, or the fresh {} of
\* guard_config.get(argument, {})
Configuration(r) == IF ConfigId(r) = NoDict THEN r.fresh ELSE dicts[ConfigId(r)]

\* a bug: validation hands control back to the event loop
LoopFree_suspending(t) == TRUE

\* no other coroutine is between the start of its validation and its await:
\* the wrapper has no await before "await f(...)", so the event loop runs
\* nothing else meanwhile
LoopFree(t) ==
    \A t2 \in TaskIds \ {t} :
        ~(tasks[t2].pc \in Validating /\ iscoroutinefunction[tasks[t2].fn])

\* bound = function_signature.bind(...); validation_errors = defaultdict(list);
\* the first argument's dict and hint are fetched
Begin(r) ==
    [r EXCEPT !.pc = "required", !.bound = bind(r.fn, r.args), !.i = 1, !.fresh = <<>>,
              !.passes = r.passes + 1, !.dicts_at_start = dicts]

\* wrapper(*args): the sync wrapper starts to run; the async wrapper returns
\* a coroutine object and runs nothing
CallWrapper(t, f, args) ==
    /\ tasks[t].pc = "idle"
    /\ iscoroutinefunction[f] => LoopFree(t)
    /\ tasks' = [tasks EXCEPT ![t] =
                     IF iscoroutinefunction[f]
                     THEN [NoTask EXCEPT !.pc = "created", !.fn = f, !.args = args]
                     ELSE Begin([NoTask EXCEPT !.fn = f, !.args = args])]
    /\ UNCHANGED <<registry, dicts, guard_config, hints, last, validation_rules, iscoroutinefunction>>

\* the event loop runs the coroutine for the first time
RunCoroutine(t) ==
    /\ tasks[t].pc = "created"
    /\ LoopFree(t)
    /\ tasks' = [tasks EXCEPT ![t] = Begin(tasks[t])]
    /\ UNCHANGED <<registry, dicts, guard_config, hints, last, validation_rules, iscoroutinefunction>>

\* a thread runs whenever it is scheduled, a coroutine when the loop is free
MayStep(t) == iscoroutinefunction[tasks[t].fn] => LoopFree(t)

\* a bug: the key is appended whether or not the dict has it
WriteConfiguration_appending(t, kw, expected, pc) ==
    LET r == tasks[t]
    IN  IF ConfigId(r) = NoDict
        THEN /\ tasks' = [tasks EXCEPT ![t] = [r EXCEPT !.fresh = Append(r.fresh, Rule(kw, expected)),
                                                       !.pc = pc]]
             /\ UNCHANGED dicts
        ELSE /\ dicts' = [dicts EXCEPT ![ConfigId(r)] = Append(dicts[ConfigId(r)], Rule(kw, expected))]
             /\ tasks' = [tasks EXCEPT ![t].pc = pc]

\* argument_configuration[kw] = expected, then on to pc
WriteConfiguration(t, kw, expected, pc) ==
    LET r == tasks[t]
    IN  IF ConfigId(r) = NoDict
        THEN /\ tasks' = [tasks EXCEPT ![t] = [r EXCEPT !.fresh = DictSet(r.fresh, kw, expected),
                                                       !.pc = pc]]
             /\ UNCHANGED dicts
        ELSE /\ dicts' = [dicts EXCEPT ![ConfigId(r)] = DictSet(dicts[ConfigId(r)], kw, expected)]
             /\ tasks' = [tasks EXCEPT ![t].pc = pc]

\* if argument_hints and not is_hint_optional(argument_hints):
\*     argument_configuration["required"] = True
InjectRequired(t) ==
    /\ tasks[t].pc = "required"
    /\ MayStep(t)
    /\ IF ArgumentHints(tasks[t]).kind # "absent" /\ ~is_hint_optional(ArgumentHints(tasks[t]))
       THEN WriteConfiguration(t, "required", EBool(TRUE), "type_test")
       ELSE /\ tasks' = [tasks EXCEPT ![t].pc = "type_test"]
            /\ UNCHANGED dicts
    /\ UNCHANGED <<registry, guard_config, hints, last, validation_rules, iscoroutinefunction>>

\* if "type" not in argument_configuration and argument_hints is not None
TestType(t) ==
    /\ tasks[t].pc = "type_test"
    /\ MayStep(t)
    /\ tasks' = [tasks EXCEPT ![t].pc =
                     IF "type" \notin Keys(Configuration(tasks[t]))
                            /\ ArgumentHints(tasks[t]).kind # "absent"
                     THEN "type_write"
                     ELSE "items"]
    /\ UNCHANGED <<registry, dicts, guard_config, hints, last, validation_rules, iscoroutinefunction>>

\* argument_configuration["type"] = argument_hints
InjectType(t) ==
    /\ tasks[t].pc = "type_write"
    /\ MayStep(t)
    /\ WriteConfiguration(t, "type", EType(ArgumentHints(tasks[t])), "items")
    /\ UNCHANGED <<registry, guard_config, hints, last, validation_rules, iscoroutinefunction>>

\* errors = []; configuration.items() and its iterator, which keeps the
\* size the dict has now
StartItems(t) ==
    /\ tasks[t].pc = "items"
    /\ MayStep(t)
    /\ tasks' = [tasks EXCEPT ![t] = [tasks[t] EXCEPT !.pc = "next", !.j = 0, !.errors = <<>>,
                                                      !.size = Len(Configuration(tasks[t]))]]
    /\ UNCHANGED <<registry, dicts, guard_config, hints, last, validation_rules, iscoroutinefunction>>

\* an exception leaves validate_arguments and the wrapper
Raise(r, exc) == [r EXCEPT !.pc = "done", !.exc = exc]

\* one turn of the for loop of _validate_argument: the iterator raises
\* RuntimeError when the dict has changed size, ends the loop after the last
\* item, and otherwise yields the next item, whose keyword is resolved and
\* whose validator is constructed and run
NextItem(t) ==
    /\ tasks[t].pc = "next"
    /\ MayStep(t)
    /\ \E r \in {tasks[t]} : \E configuration \in {Configuration(r)} :
           tasks' = [tasks EXCEPT ![t] =
               IF Len(configuration) # r.size THEN Raise(r, "RuntimeError")
               ELSE IF r.j >= Len(configuration) THEN [r EXCEPT !.pc = "record"]
               ELSE LET rule == configuration[r.j + 1]
                        got == get_validator(registry, rule.kw)
                    IN  IF got.exc # NoExc THEN Raise(r, got.exc)
                        ELSE LET error == validate(got.validator, Argument(r), rule.expected, Value(r))
                             IN  IF error.exc # NoExc THEN Raise(r, error.exc)
                                 ELSE [r EXCEPT !.j = r.j + 1,
                                                !.errors = IF error.msg # ""
                                                           THEN Append(r.errors, error.msg)
                                                           ELSE r.errors]]
    /\ UNCHANGED <<registry, dicts, guard_config, hints, last, validation_rules, iscoroutinefunction>>

\* if argument_errors := ...: validation_errors[argument] = argument_errors;
\* then the next argument's dict and hint are fetched, or the loop ends
RecordErrors(t) ==
    /\ tasks[t].pc = "record"
    /\ MayStep(t)
    /\ \E r \in {tasks[t]} :
           tasks' = [tasks EXCEPT ![t] =
               [r EXCEPT !.validation_errors = record_errors(r.validation_errors, Argument(r), r.errors),
                         !.errors = <<>>, !.fresh = <<>>,
                         !.i = r.i + 1,
                         !.pc = IF r.i < Len(r.bound) THEN "required" ELSE "finish"]]
    /\ UNCHANGED <<registry, dicts, guard_config, hints, last, validation_rules, iscoroutinefunction>>

\* if validation_errors: raise GuardValidationError(...); else
\* validate_arguments returns
Finish(t) ==
    /\ tasks[t].pc = "finish"
    /\ MayStep(t)
    /\ tasks' = [tasks EXCEPT ![t] =
                     IF tasks[t].validation_errors # <<>>
                     THEN Raise(tasks[t], "GuardValidationError")
                     ELSE [tasks[t] EXCEPT !.pc = "validated", !.validated = TRUE]]
    /\ UNCHANGED <<registry, dicts, guard_config, hints, last, validation_rules, iscoroutinefunction>>

\* a bug: f is called before the recorded errors are looked at
CallBody_early(t) ==
    /\ tasks[t].pc \in {"finish", "validated"}
    /\ MayStep(t)
    /\ tasks' = [tasks EXCEPT ![t] = [tasks[t] EXCEPT !.pc = "body", !.body_runs = tasks[t].body_runs + 1]]
    /\ UNCHANGED <<registry, dicts, guard_config, hints, last, validation_rules, iscoroutinefunction>>

\* f(*args, **kwargs) is called: its body starts (for an async wrapper the
\* coroutine function is called and awaited)
CallBody(t) ==
    /\ tasks[t].pc = "validated"
    /\ MayStep(t)
    /\ tasks' = [tasks EXCEPT ![t] = [tasks[t] EXCEPT !.pc = "body", !.body_runs = tasks[t].body_runs + 1]]
    /\ UNCHANGED <<registry, dicts, guard_config, hints, last, validation_rules, iscoroutinefunction>>

\* the body returns and the wrapper returns its result; the body of a
\* coroutine function may have awaited, and is resumed when the loop is free
ReturnBody(t) ==
    /\ tasks[t].pc = "body"
    /\ MayStep(t)
    /\ tasks' = [tasks EXCEPT ![t].pc = "done"]
    /\ UNCHANGED <<registry, dicts, guard_config, hints, last, validation_rules, iscoroutinefunction>>

NextSteps ==
    \/ \E t \in TaskIds, f \in Functions : \E args \in StepCalls(f) : CallWrapper(t, f, args)
    \/ \E t \in TaskIds : RunCoroutine(t)
    \/ \E t \in TaskIds : InjectRequired(t)
    \/ \E t \in TaskIds : TestType(t)
    \/ \E t \in TaskIds : InjectType(t)
    \/ \E t \in TaskIds : StartItems(t)
    \/ \E t \in TaskIds : NextItem(t)
    \/ \E t \in TaskIds : RecordErrors(t)
    \/ \E t \in TaskIds : Finish(t)
    \/ \E t \in TaskIds : CallBody(t)
    \/ \E t \in TaskIds : ReturnBody(t)

SpecSteps == InitSteps /\ [][NextSteps]_vars

SpecStepsOwnDicts == InitStepsOwnDicts /\ [][NextSteps]_vars

(***************************************************************************)
(* What the last call was given, read back from the record of the call:    *)
(* the rules each bound argument is checked against and what each rule     *)
(* yields for the value bound to it.                                       *)
(***************************************************************************)
IsCall == last.op = "call"

RaisedValidationError == IsCall /\ last.exc = "GuardValidationError"

BoundIndexes == 1..Len(last.bound)

ArgumentOf(i) == last.bound[i][1]

ValueOf(i) == last.bound[i][2]

\* the dict object the call was given for the i-th bound argument
GivenDict(i) ==
    LET id == guard_config[last.fn][ArgumentOf(i)]
    IN  IF id = NoDict THEN <<>> ELSE last.dicts_before[id]

\* the effective configuration of the i-th bound argument
Effective(i) == inject_rules(GivenDict(i), hints[last.fn][ArgumentOf(i)])

Resolves(i, j) == Effective(i)[j].kw \in DOMAIN last.registry_before

\* what the j-th rule of the i-th argument yields, for a keyword that resolves
RuleResult(i, j) ==
    validate(last.registry_before[Effective(i)[j].kw], ArgumentOf(i),
             Effective(i)[j].expected, ValueOf(i))

Faults(i, j) == Resolves(i, j) /\ RuleResult(i, j).exc # NoExc

Fails(i, j) == Resolves(i, j) /\ RuleResult(i, j).exc = NoExc /\ RuleResult(i, j).msg # ""

RuleIndexes(i) == 1..Len(Effective(i))

HasFailingRule(i) == \E j \in RuleIndexes(i) : Fails(i, j)

\* the messages of the failing rules of the i-th argument, in rule order
FailingMessages(i) ==
    LET failing == SelectSeq([j \in RuleIndexes(i) |-> j], LAMBDA j : Fails(i, j))
    IN  [n \in 1..Len(failing) |-> RuleResult(i, failing[n]).msg]

\* every keyword of the call resolves and no validator raises
RunsThrough ==
    \A i \in BoundIndexes : \A j \in RuleIndexes(i) : Resolves(i, j) /\ ~Faults(i, j)

RECURSIVE AllRulesFrom(_)
\* every (argument, keyword) pair of the call from the i-th argument on, in
\* binding order and rule order
AllRulesFrom(i) ==
    IF i > Len(last.bound) THEN <<>>
    ELSE [j \in RuleIndexes(i) |-> <<ArgumentOf(i), Effective(i)[j].kw>>] \o AllRulesFrom(i + 1)

\* the entries of the log of validators that ran that belong to argument
RanFor(argument) == SelectSeq(last.evaluated, LAMBDA e : e[1] = argument)

ErrorsOf(argument) ==
    IF argument \in DOMAIN last.errors THEN last.errors[argument] ELSE <<>>

(***************************************************************************)
(* The claims.                                                             *)
(***************************************************************************)

\* C1: aggregation across arguments.  Whenever a call raises
\* GuardValidationError, the keys of its error mapping are exactly the bound
\* arguments with at least one failing rule, and every rule of every bound
\* argument was evaluated: a failure on an earlier argument stops nothing.
C1_Aggregation ==
    RaisedValidationError =>
        /\ DOMAIN last.errors = {ArgumentOf(i) : i \in {k \in BoundIndexes : HasFailingRule(k)}}
        /\ last.evaluated = AllRulesFrom(1)

\* a call in which both bound arguments fail: both are keys of the mapping
C1_Witness == RaisedValidationError /\ DOMAIN last.errors = {"age", "name"}

\* C2: no short-circuit within an argument.  Whenever the pass of a call
\* completes (it returns or raises GuardValidationError), every rule of every
\* argument's effective configuration was evaluated, in rule order, and the
\* argument's error list is exactly the messages of its failing rules, in
\* rule order.
C2_NoShortCircuit ==
    (IsCall /\ last.exc \in {NoExc, "GuardValidationError"}) =>
        \A i \in BoundIndexes :
            /\ RanFor(ArgumentOf(i)) = [j \in RuleIndexes(i) |-> <<ArgumentOf(i), Effective(i)[j].kw>>]
            /\ ErrorsOf(ArgumentOf(i)) = FailingMessages(i)

\* gte and lte both configured, the value fails only lte: one message, lte's
C2_Witness ==
    /\ RaisedValidationError
    /\ \E i \in BoundIndexes :
           /\ Len(GivenDict(i)) = 2
           /\ GivenDict(i)[1].kw = "gte" /\ GivenDict(i)[2].kw = "lte"
           /\ ~Fails(i, 1) /\ Fails(i, 2)
           /\ \A j \in RuleIndexes(i) : j # 2 => ~Fails(i, j)
           /\ last.errors[ArgumentOf(i)] = <<RuleResult(i, 2).msg>>

\* C3 as stated: a call returns normally if and only if no bound argument
\* has a failing rule, and otherwise raises GuardValidationError with the
\* function name passed in and the accumulated mapping.
C3_AsStated ==
    IsCall =>
        /\ last.exc = NoExc <=> ~(\E i \in BoundIndexes : HasFailingRule(i))
        /\ last.exc # NoExc =>
               /\ last.exc = "GuardValidationError"
               /\ last.function_name = last.fn
               /\ last.evaluated = AllRulesFrom(1)

\* C3 as amended: a call returns normally if and only if every keyword
\* resolves, no validator raises and no bound argument has a failing rule; it
\* raises GuardValidationError, after all arguments were processed and with
\* the function name passed in and the accumulated mapping, if and only if
\* every keyword resolves, no validator raises and some rule fails; otherwise
\* the GuardConfigurationException or the validator's exception leaves the
\* call and no GuardValidationError is raised.
C3_Outcome ==
    IsCall =>
        /\ last.exc = NoExc <=> (RunsThrough /\ ~(\E i \in BoundIndexes : HasFailingRule(i)))
        /\ last.exc = "GuardValidationError" <=> (RunsThrough /\ \E i \in BoundIndexes : HasFailingRule(i))
        /\ last.exc = "GuardValidationError" =>
               /\ last.function_name = last.fn
               /\ last.evaluated = AllRulesFrom(1)
               /\ \A i \in BoundIndexes : ErrorsOf(ArgumentOf(i)) = FailingMessages(i)
        /\ ~RunsThrough => last.exc \in {"GuardConfigurationException", "TypeError"}

\* a call with a failing rule on its second argument only: it raises, after
\* both arguments were processed, under the name of the function called
C3_Witness ==
    /\ RaisedValidationError
    /\ last.function_name = "register_user"
    /\ ~HasFailingRule(1) /\ HasFailingRule(2)
    /\ Len(RanFor("age")) > 0

\* C4: whenever GuardValidationError is raised, its error mapping has at
\* least one key and the list under every key is non-empty.
C4_NonEmptyErrors ==
    RaisedValidationError =>
        /\ DOMAIN last.errors # {}
        /\ \A argument \in DOMAIN last.errors : Len(last.errors[argument]) >= 1

\* a raise whose mapping leaves out the argument whose rules all ran and passed
C4_Witness ==
    /\ RaisedValidationError
    /\ Cardinality(DOMAIN last.errors) = 1
    /\ Len(last.bound) = 2
    /\ \E i \in BoundIndexes : Len(Effective(i)) > 0 /\ ArgumentOf(i) \notin DOMAIN last.errors

IsRegister == last.op = "register"

IsResolve == last.op = "resolve"

\* C5: registering a keyword that is already in the registry fails with
\* GuardConfigurationException and leaves the registry as it was: the keyword
\* still resolves to the validator registered first.
C5_RegistrationCollision ==
    (IsRegister /\ last.kw \in DOMAIN last.registry_before) =>
        /\ last.exc = "GuardConfigurationException"
        /\ registry = last.registry_before
        /\ registry[last.kw] = last.registry_before[last.kw]

\* "email" registered a second time, with another class: it is rejected and
\* email is still bound to EmailValidator
C5_Witness ==
    /\ IsRegister /\ last.kw = "email" /\ last.validator # "EmailValidator"
    /\ last.exc = "GuardConfigurationException"
    /\ registry["email"] = "EmailValidator"

\* C6: get_validator returns the class registered for the keyword when the
\* keyword is in the registry and raises GuardConfigurationException when it
\* is absent; it never returns None.
C6_Resolve ==
    IsResolve =>
        /\ last.kw \in DOMAIN registry => (last.exc = NoExc /\ last.validator = registry[last.kw])
        /\ last.kw \notin DOMAIN registry => last.exc = "GuardConfigurationException"
        /\ last.exc = NoExc => last.validator # NoValidator

\* a keyword that was never registered is resolved: the lookup raises
C6_Witness ==
    IsResolve /\ last.kw \notin DOMAIN registry /\ last.exc = "GuardConfigurationException"

\* C7: the registry only grows.  Every operation keeps every keyword of the
\* registry bound to the class it was bound to, and get_validator and a
\* guarded call leave the registry unchanged.
C7_RegistryGrows ==
    /\ \A keyword \in DOMAIN last.registry_before :
           keyword \in DOMAIN registry /\ registry[keyword] = last.registry_before[keyword]
    /\ last.op \in {"resolve", "call"} => registry = last.registry_before

\* the built-ins are registered again after a caller registered "even": the
\* caller's keyword is still there, bound as it was
C7_Witness ==
    /\ last.op = "register_defaults"
    /\ "even" \in DOMAIN last.registry_before
    /\ registry["even"] = last.registry_before["even"]

\* the keywords the built-in set is documented to hold
BuiltinKeywords ==
    {"lt", "lte", "gt", "gte", "choices", "type", "required", "keys", "schema",
     "length", "regex", "email", "url", "startswith", "endswith", "contains",
     "uuid", "ip", "lowercase", "uppercase"}

\* C8: after import every built-in keyword resolves in the registry, and a
\* call whose rules use built-in keywords never ends in
\* GuardConfigurationException.
C8_BuiltinsRegistered ==
    /\ \A keyword \in BuiltinKeywords : keyword \in DOMAIN registry
    /\ (IsResolve /\ last.kw \in BuiltinKeywords) => last.exc = NoExc
    /\ (IsCall /\ \A i \in BoundIndexes : \A j \in RuleIndexes(i) : Effective(i)[j].kw \in BuiltinKeywords)
           => last.exc # "GuardConfigurationException"

\* C9: running register_default_validators again on the initialised registry
\* completes without error and leaves the registry as one run made it.
C9_IdempotentInit ==
    last.op = "register_defaults" =>
        /\ last.exc = NoExc
        /\ registry = last.registry_before

\* C10: a guarded call never changes the rule dicts the decorator was given:
\* after the call, whether it returned or raised, every dict has the items it
\* had before.
C10_ConfigUnchanged == IsCall => dicts = last.dicts_before

(***************************************************************************)
(* The rule configuration resolver, read against what the caller wrote.    *)
(***************************************************************************)
HintOf(i) == hints[last.fn][ArgumentOf(i)]

\* the rules the caller wrote for the i-th bound argument
SuppliedDict(i) ==
    LET id == guard_config[last.fn][ArgumentOf(i)]
    IN  IF id = NoDict THEN <<>> ELSE validation_rules[id]

HasNonOptionalHint(i) == HintOf(i).kind # "absent" /\ ~is_hint_optional(HintOf(i))

PassCompleted == IsCall /\ last.exc \in {NoExc, "GuardValidationError"}

\* the message a required rule gives for None
AbsenceError(argument) == RequiredValidator(argument, EBool(TRUE), NoneValue).msg

HasAbsenceError(i) ==
    \E n \in 1..Len(ErrorsOf(ArgumentOf(i))) : ErrorsOf(ArgumentOf(i))[n] = AbsenceError(ArgumentOf(i))

\* C11: type-hint inference of required-ness.  For a bound argument whose
\* value is None and for which the caller wrote no required rule: with a
\* non-optional type hint the call does not return normally and, when the
\* pass completes, the argument's errors hold the message for an absent
\* value; with an optional hint (Union with None, or X | None) the argument
\* gets no error for the absence of a value.
C11_HintInference ==
    IsCall =>
        \A i \in BoundIndexes :
            (ValueOf(i) = NoneValue /\ "required" \notin Keys(SuppliedDict(i))) =>
                /\ HasNonOptionalHint(i) =>
                       /\ last.exc # NoExc
                       /\ last.exc = "GuardValidationError" => HasAbsenceError(i)
                /\ is_hint_optional(HintOf(i)) => ~HasAbsenceError(i)

\* the value of the required entry of a dict
RequiredEntry(d) == SelectSeq(d, LAMBDA r : r.kw = "required")

\* C12: the resolver injects required = true only when the argument has a
\* non-optional type hint and the dict it is given has no required entry; a
\* required entry the dict already has is left with the value it had.
C12_RequiredKept ==
    PassCompleted =>
        \A i \in BoundIndexes :
            LET id == guard_config[last.fn][ArgumentOf(i)]
            IN  id # NoDict =>
                    /\ "required" \in Keys(GivenDict(i)) =>
                           RequiredEntry(dicts[id]) = RequiredEntry(GivenDict(i))
                    /\ "required" \notin Keys(GivenDict(i)) =>
                           ("required" \in Keys(dicts[id]) <=> HasNonOptionalHint(i))

\* the type rule of a dict: no rule or one
TypeRule(d) == SelectSeq(d, LAMBDA r : r.kw = "type")

\* C13: the type rule an argument is checked against is the explicit type
\* rule when the caller wrote one, type = <hint> when the caller wrote none
\* and the argument has a type hint, and none when there is neither.
C13_TypeInjection ==
    IsCall =>
        \A i \in BoundIndexes :
            TypeRule(Effective(i)) =
                IF "type" \in Keys(SuppliedDict(i)) THEN TypeRule(SuppliedDict(i))
                ELSE IF HintOf(i).kind # "absent" THEN <<Rule("type", EType(HintOf(i)))>>
                ELSE <<>>

\* the position of argument among the bound arguments
BoundPosition(argument) == CHOOSE i \in BoundIndexes : ArgumentOf(i) = argument

\* the rules of the i-th argument that the caller did not write
IsInjected(i, j) == \A k \in 1..Len(SuppliedDict(i)) : SuppliedDict(i)[k] # Effective(i)[j]

\* C14: evaluation order.  In every call whose pass completes the validators
\* run argument by argument in binding order; within an argument the
\* keywords the caller wrote run in the order written, and every rule
\* injected from the type hint runs after every rule the caller wrote.
C14_EvaluationOrder ==
    PassCompleted =>
        /\ \A m, n \in 1..Len(last.evaluated) :
               m < n => BoundPosition(last.evaluated[m][1]) <= BoundPosition(last.evaluated[n][1])
        /\ \A i \in BoundIndexes :
               /\ SelectSeq(RanFor(ArgumentOf(i)),
                            LAMBDA e : e[2] \in Keys(SuppliedDict(i)))
                      = [k \in 1..Len(SuppliedDict(i)) |-> <<ArgumentOf(i), SuppliedDict(i)[k].kw>>]
               /\ \A j \in RuleIndexes(i) : IsInjected(i, j) => j > Len(SuppliedDict(i))

(***************************************************************************)
(* Rule values written as (expected, custom_message).                      *)
(***************************************************************************)
HasCustomMessage(expected) == expected.k \in {"int_str", "pair_str"}

\* the expected part of an (expected, custom_message) pair
ExpectedAlone(expected) ==
    CASE expected.k = "int_str" -> EInt(expected.n)
      [] expected.k = "pair_str" -> EPair(expected.pair[1], expected.pair[2])
      [] OTHER -> expected

\* the message the j-th rule of the i-th argument is to record: none when the
\* validator passes on expected alone, custom_message when it fails and the
\* rule carries one, the validator's own message otherwise
MessageToRecord(i, j) ==
    LET rule == Effective(i)[j]
        result == validate(last.registry_before[rule.kw], ArgumentOf(i),
                           ExpectedAlone(rule.expected), ValueOf(i))
    IN  IF result.msg # "" /\ HasCustomMessage(rule.expected)
        THEN rule.expected.s
        ELSE result.msg

MessagesToRecord(i) ==
    LET failing == SelectSeq([j \in RuleIndexes(i) |-> j], LAMBDA j : MessageToRecord(i, j) # "")
    IN  [n \in 1..Len(failing) |-> MessageToRecord(i, failing[n])]

Comparisons == {"gt", "gte", "lt", "lte"}

\* C15: custom message override.  For an int argument with a comparison
\* rule written as (expected, custom_message), the validator is evaluated
\* against expected alone and, when it fails, the message recorded for the
\* rule is custom_message: gte (1, msg) with value 0 gives the argument the
\* list [msg] and nothing else, and with value 1 no message.
C15_CustomMessage ==
    PassCompleted =>
        \A i \in BoundIndexes :
            (/\ ValueOf(i).t = "int"
             /\ \E j \in RuleIndexes(i) :
                    Effective(i)[j].kw \in Comparisons /\ HasCustomMessage(Effective(i)[j].expected))
            => ErrorsOf(ArgumentOf(i)) = MessagesToRecord(i)

\* C16: for a str argument, a length rule written as a plain (min, max)
\* pair is read as bounds and its failure gives the validator's own message;
\* written as ((min, max), custom_message) its failure gives custom_message;
\* an argument whose length is within the bounds gets no message from the
\* rule, so only the argument that violates its bounds appears in the error
\* mapping.
C16_LengthPair ==
    PassCompleted =>
        \A i \in BoundIndexes :
            (/\ ValueOf(i).t = "str"
             /\ \E j \in RuleIndexes(i) : Effective(i)[j].kw = "length")
            => ErrorsOf(ArgumentOf(i)) = MessagesToRecord(i)

(***************************************************************************)
(* Keywords that do not resolve.                                           *)
(***************************************************************************)
\* every keyword of every rule dict the decorator of the called function
\* was given
ConfiguredKeywords ==
    UNION {Keys(last.dicts_before[guard_config[last.fn][name]]) :
               name \in {a \in DOMAIN guard_config[last.fn] : guard_config[last.fn][a] # NoDict}}

\* C17 as stated: if any keyword anywhere in the rule configuration of a call
\* is not registered, the call fails with GuardConfigurationException.
C17_AsStated ==
    IsCall =>
        ((\E keyword \in ConfiguredKeywords : keyword \notin DOMAIN last.registry_before)
            => last.exc = "GuardConfigurationException")

\* the j-th rule of the i-th argument ends the pass: its keyword does not
\* resolve or its validator raises
Stops(i, j) == ~Resolves(i, j) \/ Faults(i, j)

\* the first rule, in evaluation order, that ends the pass
FirstStop(i, j) ==
    /\ Stops(i, j)
    /\ \A i2 \in BoundIndexes : \A j2 \in RuleIndexes(i2) :
           (i2 < i \/ (i2 = i /\ j2 < j)) => ~Stops(i2, j2)

\* C17 as amended: a keyword is resolved when the loop reaches it.  If a
\* keyword of the effective configuration of a bound argument is not
\* registered, the call neither returns normally nor raises
\* GuardValidationError; it ends with GuardConfigurationException at the
\* first such keyword, unless a validator that ran earlier raised, and then
\* with that exception.  The dict given for a name that is not a bound
\* argument is never read: when every keyword of the bound arguments
\* resolves and no validator raises, the call returns or raises
\* GuardValidationError.
C17_Resolution ==
    IsCall =>
        /\ \A i \in BoundIndexes : \A j \in RuleIndexes(i) :
               /\ ~Resolves(i, j) => last.exc \notin {NoExc, "GuardValidationError"}
               /\ FirstStop(i, j) =>
                      last.exc = IF Resolves(i, j) THEN RuleResult(i, j).exc
                                 ELSE "GuardConfigurationException"
        /\ RunsThrough => last.exc \in {NoExc, "GuardValidationError"}

\* register_user is called with an age its rules accept and a name whose
\* dict has an unregistered keyword after length: length ran, then the call
\* ended with GuardConfigurationException
C17_Witness ==
    /\ IsCall /\ last.fn = "register_user"
    /\ last.exc = "GuardConfigurationException"
    /\ \E n \in 1..Len(last.evaluated) : last.evaluated[n] = <<"name", "length">>
    /\ \E j \in RuleIndexes(2) : ~Resolves(2, j)

(***************************************************************************)
(* The validators on their own.                                            *)
(***************************************************************************)
IsValidate == last.op = "validate"

\* the validator returned: None (msg is "") or a message
Returned == last.exc = NoExc

Accepted == Returned /\ last.msg = ""

\* C18: for every built-in validator, every expected value (a malformed
\* regex pattern and a type hint that cannot be used in an instance check
\* among them) and every value, constructing the validator and calling
\* validate returns no message or a message: no exception escapes.
C18_NoFaults == IsValidate => Returned

\* min <= size <= max, an absent bound imposing no limit
WithinBounds(size, bounds) ==
    /\ bounds[1] = <<>> \/ bounds[1][1] <= size
    /\ bounds[2] = <<>> \/ size <= bounds[2][1]

\* C19: boundary exactness.  For a number, gte n passes exactly when
\* value >= n, lte n exactly when value <= n, gt n exactly when value > n and
\* lt n exactly when value < n; for a str, length (min, max) passes exactly
\* when min <= len(value) <= max, an absent (None) bound imposing no limit.
\* In each of these cases the validator returns: nothing is raised.
C19_BoundaryExactness ==
    IsValidate =>
        /\ (last.kw \in Comparisons /\ last.value.t = "int") =>
               /\ Returned
               /\ Accepted <=>
                      CASE last.kw = "gte" -> last.value.n >= last.expected.n
                        [] last.kw = "lte" -> last.value.n <= last.expected.n
                        [] last.kw = "gt" -> last.value.n > last.expected.n
                        [] last.kw = "lt" -> last.value.n < last.expected.n
        /\ (last.kw = "length" /\ last.value.t = "str") =>
               /\ Returned
               /\ Accepted <=> WithinBounds(Len(last.value.s), last.expected.pair)

\* length (min, max) with min < max is given a str of exactly max characters
\* and passes
C19_Witness ==
    /\ IsValidate /\ last.kw = "length" /\ last.value.t = "str"
    /\ last.expected.pair[1] # <<>> /\ last.expected.pair[2] # <<>>
    /\ last.expected.pair[1][1] < last.expected.pair[2][1]
    /\ Len(last.value.s) = last.expected.pair[2][1]
    /\ Accepted

\* C20: choices.  When expected is an enumeration type the rule passes
\* exactly when the value is an instance of that enumeration, so the plain
\* string "USD", equal to the underlying value of a member, is rejected; when
\* expected is a list the rule passes exactly when the value equals one of
\* its items.  Either way the validator returns.
C20_Choices ==
    (IsValidate /\ last.kw = "choices") =>
        /\ Returned
        /\ (last.expected.k = "type" /\ last.expected.ty.kind = "enum") =>
               (Accepted <=> last.value.t \in last.expected.ty.args)
        /\ last.expected.k = "list" =>
               (Accepted <=> \E n \in 1..Len(last.expected.pair) : last.expected.pair[n] = last.value)

\* choices over the enumeration is given the plain string "USD" and rejects it
C20_Witness ==
    /\ IsValidate /\ last.kw = "choices"
    /\ last.expected = EType(CurrencyEnum)
    /\ last.value = StrValue("USD")
    /\ Returned /\ last.msg # ""

\* the classes of the schema are plain classes, which isinstance accepts
PlainSchema(expected) ==
    /\ expected.k = "schema"
    /\ \A n \in 1..Len(expected.pair) : expected.pair[n][2].kind = "class"

\* the n-th entry of the schema is met by the dict: its key is present with
\* a value of its class
EntryMet(expected, value, n) ==
    /\ expected.pair[n][1] \in KeysOf(value.d)
    /\ Lookup(value.d, expected.pair[n][1]).t \in expected.pair[n][2].args

\* the first entry of the schema the dict does not meet
FirstUnmet(expected, value) ==
    CHOOSE n \in 1..Len(expected.pair) :
        /\ ~EntryMet(expected, value, n)
        /\ \A m \in 1..(n - 1) : EntryMet(expected, value, m)

\* the three kinds of message: for a value that is no dict, for a missing
\* key and for a key of the wrong type
NotADictMessages == {"value must be a dictionary, got " \o t : t \in {"NoneType", "int", "str", "Currency"}}

MissingKeyMessages ==
    {MissingKey("value", key, value).msg : key \in {"host", "port"}, value \in SchemaValues}

WrongTypeMessages ==
    {"value." \o key \o " must be of type " \o class.repr \o ", got " \o t :
        key \in {"host", "port"}, class \in {StrHint, IntHint}, t \in {"NoneType", "int", "str"}}

\* C21: schema.  A value that is no dict gets the single message that the
\* argument must be a dictionary, and no message about a key.  A dict passes
\* exactly when every key of the schema is present with a value of its
\* class; otherwise the message is about the first entry that is not met: a
\* missing-key message when the key is absent, a wrong-type message when
\* its value is of another class.  The three kinds of message are disjoint.
\* (The classes of the schema are plain classes.)
C21_Schema ==
    (IsValidate /\ last.kw = "schema" /\ PlainSchema(last.expected)) =>
        /\ Returned
        /\ last.value.t # "dict" =>
               /\ last.msg = "value must be a dictionary, got " \o last.value.t
               /\ last.msg \in NotADictMessages
               /\ last.msg \notin MissingKeyMessages \cup WrongTypeMessages
        /\ last.value.t = "dict" =>
               /\ Accepted <=> \A n \in 1..Len(last.expected.pair) : EntryMet(last.expected, last.value, n)
               /\ ~Accepted =>
                      LET n == FirstUnmet(last.expected, last.value)
                          key == last.expected.pair[n][1]
                      IN  IF key \notin KeysOf(last.value.d)
                          THEN /\ last.msg \in MissingKeyMessages
                               /\ last.msg = MissingKey("value", key, last.value).msg
                               /\ last.msg \notin NotADictMessages \cup WrongTypeMessages
                          ELSE /\ last.msg \in WrongTypeMessages
                               /\ last.msg = WrongType("value", key, last.expected.pair[n][2], last.value).msg
                               /\ last.msg \notin NotADictMessages \cup MissingKeyMessages

\* the schema {host: str, port: int} is given a dict that has both keys, port
\* with a str: the message is the wrong-type one, about port
C21_Witness ==
    /\ IsValidate /\ last.kw = "schema" /\ PlainSchema(last.expected)
    /\ Len(last.expected.pair) = 2
    /\ last.value = DictValue(<< <<"host", StrValue("h")>>, <<"port", StrValue("p")>> >>)
    /\ last.msg = "value.port must be of type <class 'int'>, got str"

\* x starts with prefix
StartsWith(x, prefix) == Len(x) >= Len(prefix) /\ SubSeq(x, 1, Len(prefix)) = prefix

\* C22: regex.  For a value of any type and a well-formed pattern, the rule
\* passes exactly when the string form of the value, str(value), matches the
\* pattern from the start of the string.
C22_StringForm ==
    (IsValidate /\ last.kw = "regex" /\ last.expected.k = "str"
                /\ last.expected.s \notin MalformedPatterns) =>
        /\ Returned
        /\ Accepted <=> StartsWith(FmtValue(last.value), last.expected.s)

(***************************************************************************)
(* A keyword that does not resolve in the middle of a pass.                *)
(***************************************************************************)
\* the place of the j-th rule of the i-th argument in the order of evaluation
Position(i, j) == Len(AllRulesFrom(1)) - Len(AllRulesFrom(i)) + j

\* the pass reaches the j-th rule of the i-th argument: no rule before it
\* ends the pass
Reached(i, j) ==
    \A i2 \in BoundIndexes : \A j2 \in RuleIndexes(i2) :
        (i2 < i \/ (i2 = i /\ j2 < j)) => ~Stops(i2, j2)

\* C27: when the pass reaches a rule whose keyword is not registered, the
\* call ends with GuardConfigurationException: the exception carries no
\* error mapping (the messages collected for earlier rules and arguments
\* are gone), the validators that ran are exactly those of the rules before
\* that one (no later rule or argument is evaluated), no GuardValidationError
\* is raised and the body of the wrapped function does not run.
C27_ResolutionFailure ==
    IsCall =>
        \A i \in BoundIndexes : \A j \in RuleIndexes(i) :
            (Reached(i, j) /\ ~Resolves(i, j)) =>
                /\ last.exc = "GuardConfigurationException"
                /\ last.errors = <<>> /\ last.function_name = ""
                /\ last.evaluated = SubSeq(AllRulesFrom(1), 1, Position(i, j) - 1)
                /\ ~last.body_ran

\* a rule of age fails, then the keyword of a rule of name does not resolve:
\* the message for age is gone, and a rule after the unresolved one never ran
C27_Witness ==
    /\ IsCall /\ last.exc = "GuardConfigurationException" /\ Len(last.bound) = 2
    /\ HasFailingRule(1)
    /\ \E j \in RuleIndexes(2) :
           /\ Reached(2, j) /\ ~Resolves(2, j)
           /\ j < Len(Effective(2))
    /\ last.errors = <<>>

(***************************************************************************)
(* When a keyword is resolved.                                             *)
(***************************************************************************)
\* the registry as import leaves it, which is the registry the functions
\* were decorated under
RegistryAtDecoration == register_default_validators(EmptyRegistry).registry

\* C28: rule keywords are resolved when a call is validated, in the
\* registry as it is then.  For a rule whose keyword was not registered
\* when the function was decorated and which the pass reaches: while the
\* keyword is still not registered the call ends with
\* GuardConfigurationException; once it is registered the validator
\* registered for it runs: an exception it raises ends the call, and when
\* the pass completes the argument's messages are those of the validators
\* the registry held at the call.
C28_LateResolution ==
    IsCall =>
        \A i \in BoundIndexes : \A j \in RuleIndexes(i) :
            (Reached(i, j) /\ Effective(i)[j].kw \notin DOMAIN RegistryAtDecoration) =>
                IF Effective(i)[j].kw \notin DOMAIN last.registry_before
                THEN last.exc = "GuardConfigurationException"
                ELSE /\ Position(i, j) <= Len(last.evaluated)
                     /\ last.evaluated[Position(i, j)] = <<ArgumentOf(i), Effective(i)[j].kw>>
                     /\ RuleResult(i, j).exc # NoExc => last.exc = RuleResult(i, j).exc
                     /\ PassCompleted => ErrorsOf(ArgumentOf(i)) = FailingMessages(i)

\* register_user was decorated with the rule even for age before even was
\* registered; PositiveValidator was registered for it since, and a call
\* with age 0 gets that validator's message
C28_Witness ==
    /\ IsCall /\ last.fn = "register_user"
    /\ "even" \in Keys(SuppliedDict(1)) /\ "even" \notin DOMAIN RegistryAtDecoration
    /\ "even" \in DOMAIN last.registry_before
    /\ last.registry_before["even"] = "PositiveValidator"
    /\ ValueOf(1) = IntValue(0)
    /\ \E n \in 1..Len(ErrorsOf("age")) : ErrorsOf("age")[n] = "age must be positive"

(***************************************************************************)
(* One rule dict given to two decorators.                                  *)
(***************************************************************************)
\* the dict object of the i-th bound argument as the call left it
DictAfter(i) ==
    LET id == guard_config[last.fn][ArgumentOf(i)]
    IN  IF id = NoDict THEN <<>> ELSE dicts[id]

\* the dict the call was given holds a type rule the caller did not write:
\* an earlier validation put it there
HasInjectedType(i) ==
    /\ TypeRule(GivenDict(i)) # <<>>
    /\ TypeRule(SuppliedDict(i)) = <<>>

\* the message of a type rule with the class expected, for the i-th argument
TypeMessage(i, expected) == TypeValidator(ArgumentOf(i), expected, ValueOf(i)).msg

InErrors(i, message) ==
    \E n \in 1..Len(ErrorsOf(ArgumentOf(i))) : ErrorsOf(ArgumentOf(i))[n] = message

\* C26: the required and type rules a validation injects stay in the dict
\* object: every call leaves each required and type rule it found in a dict
\* in place, the type rule with the class it had.  A call whose argument has
\* a dict with a type rule injected by an earlier validation applies that
\* rule and does not inject its own hint: when the pass completes the
\* argument has the type message of the class found in the dict exactly when
\* its value is no instance of that class, and no type message of its own
\* hint when that is another class.
C26_SharedDict ==
    IsCall =>
        /\ \A id \in DictIds :
               /\ TypeRule(last.dicts_before[id]) # <<>> =>
                      TypeRule(dicts[id]) = TypeRule(last.dicts_before[id])
               /\ RequiredEntry(last.dicts_before[id]) # <<>> => RequiredEntry(dicts[id]) # <<>>
               /\ RequiredEntry(last.dicts_before[id]) = <<Rule("required", EBool(TRUE))>> =>
                      RequiredEntry(dicts[id]) = <<Rule("required", EBool(TRUE))>>
        /\ \A i \in BoundIndexes :
               HasInjectedType(i) =>
                   LET found == TypeRule(GivenDict(i))[1].expected
                       own == EType(HintOf(i))
                   IN  /\ TypeRule(DictAfter(i)) = TypeRule(GivenDict(i))
                       /\ PassCompleted =>
                              /\ InErrors(i, TypeMessage(i, found)) <=> ValueOf(i).t \notin found.ty.args
                              /\ (own # found /\ HintOf(i).kind # "absent"
                                      /\ TypeMessage(i, own) # "")
                                     => ~InErrors(i, TypeMessage(i, own))

\* set_age(age: str) is called with "hi" on the dict that a call of
\* register_user(age: int, ...) left the type rule int in: the str is turned
\* down for not being an int
C26_Witness ==
    /\ IsCall /\ last.fn = "set_age" /\ ValueOf(1) = StrValue("hi")
    /\ HasInjectedType(1)
    /\ TypeRule(GivenDict(1))[1].expected = EType(IntHint)
    /\ RequiredEntry(GivenDict(1)) # <<>>
    /\ InErrors(1, "age must be of type <class 'int'>, got str")

(***************************************************************************)
(* Repeated calls.                                                         *)
(***************************************************************************)
\* what a first call gives: validate_arguments run on the rule dicts as the
\* caller wrote them, for the function, the arguments and the registry of
\* the last call
FirstCall ==
    validate_arguments(last.registry_before, validation_rules, last.fn, last.bound,
                       hints[last.fn], guard_config[last.fn])

BodyStarts(t) == tasks'[t].body_runs > tasks[t].body_runs

\* validate_arguments has gone through every argument once, has recorded
\* no error and has returned
ReturnedNormally(r) ==
    /\ r.pc = "validated"
    /\ r.validated
    /\ r.passes = 1
    /\ r.i = Len(r.bound) + 1
    /\ r.validation_errors = <<>>
    /\ r.exc = NoExc

\* C23: for every call, through a sync or an async wrapper, the body of the
\* wrapped callable starts only in a step taken after validate_arguments has
\* returned normally for that call; once validation has raised, the call
\* takes no further step: its body has not run and never runs, and
\* validate_arguments has run once and is not run again.
C23_ValidationPrecedesExecution ==
    [][\A t \in TaskIds :
           /\ BodyStarts(t) => ReturnedNormally(tasks[t])
           /\ tasks[t].exc # NoExc =>
                  /\ tasks'[t] = tasks[t]
                  /\ tasks[t].body_runs = 0
                  /\ tasks[t].passes = 1]_vars

\* one call is in its body after validation returned, another has ended
\* with the validation error and without its body
C23_Witness ==
    \E t, t2 \in TaskIds :
        /\ tasks[t].pc = "body" /\ tasks[t].validated /\ tasks[t].body_runs = 1
        /\ tasks[t2].pc = "done" /\ tasks[t2].exc = "GuardValidationError"
        /\ tasks[t2].body_runs = 0

\* validate_arguments has ended for this call, by an exception or a return
PassEnded(r) == r.passes = 1 /\ (r.exc # NoExc \/ r.validated)

\* how the pass ended: the exception, and the error mapping it carries
PassOutcome(r) ==
    [exc |-> r.exc,
     errors |-> IF r.exc = "GuardValidationError" THEN r.validation_errors ELSE <<>>]

\* how the pass ends when no other call is in flight: validate_arguments
\* run in one piece on the rule dicts as they were when the pass started
RunAlone(r) ==
    LET alone == validate_arguments(registry, r.dicts_at_start, r.fn, r.bound,
                                    hints[r.fn], guard_config[r.fn])
    IN  [exc |-> alone.exc, errors |-> alone.errors]

\* C24: concurrent calls are independent.  Whatever the interleaving of two
\* validation passes, of the same wrapped function or of two wrapped functions,
\* each pass ends as it ends when it is run alone from the state it started
\* in: with a normal return, or with the same exception and error mapping.
C24_Independent ==
    \A t \in TaskIds : PassEnded(tasks[t]) => PassOutcome(tasks[t]) = RunAlone(tasks[t])

\* a pass that ran while no other call had been made ends as the pass run in
\* one piece ends
C24_AloneAgrees ==
    \A t \in TaskIds :
        (PassEnded(tasks[t]) /\ \A t2 \in TaskIds \ {t} : tasks[t2].pc = "idle") =>
            PassOutcome(tasks[t]) = RunAlone(tasks[t])

\* the calls made so far are calls of one wrapped function
SameFunction ==
    \A t, t2 \in TaskIds :
        (tasks[t].pc # "idle" /\ tasks[t2].pc # "idle") => tasks[t].fn = tasks[t2].fn

\* the pass holds a live iterator over the items of dict object id
Iterating(t, id) == tasks[t].pc = "next" /\ ConfigId(tasks[t]) = id

\* the pass has made the writes its argument's hint calls for
HasWritten(r) ==
    /\ (ArgumentHints(r).kind # "absent" /\ ~is_hint_optional(ArgumentHints(r))) =>
           \E n \in 1..Len(Configuration(r)) :
               Configuration(r)[n] = Rule("required", EBool(TRUE))
    /\ ArgumentHints(r).kind # "absent" => "type" \in Keys(Configuration(r))

IsCoroutine(r) == r.pc # "idle" /\ iscoroutinefunction[r.fn]

\* C30: the async wrapper.  The step that calls it only makes a coroutine
\* object: no validation has started, nothing is raised and no rule dict is
\* written.  The first step of the coroutine starts validate_arguments; from
\* then until f is called no other coroutine takes a step, so validation runs
\* to its end without suspending; and the body of the wrapped coroutine
\* function starts only after that validation returned normally.
C30_AsyncWrapper ==
    [][\A t \in TaskIds :
           /\ (tasks[t].pc = "idle" /\ IsCoroutine(tasks'[t])) =>
                  /\ tasks'[t].pc = "created"
                  /\ tasks'[t].passes = 0 /\ tasks'[t].exc = NoExc
                  /\ tasks'[t].body_runs = 0
                  /\ dicts' = dicts
           /\ (tasks[t].pc = "created" /\ tasks'[t] # tasks[t]) =>
                  tasks'[t].pc = "required" /\ tasks'[t].passes = 1
           /\ (IsCoroutine(tasks[t]) /\ tasks[t].pc \in Validating) =>
                  \A t2 \in TaskIds \ {t} : IsCoroutine(tasks'[t2]) => tasks'[t2] = tasks[t2]
           /\ (IsCoroutine(tasks[t]) /\ BodyStarts(t)) => ReturnedNormally(tasks[t])]_vars

\* one coroutine is inside the loop over its rules while the other, whose
\* wrapper has been called, has not been run and has validated nothing
C30_Witness ==
    \E t, t2 \in TaskIds :
        /\ IsCoroutine(tasks[t]) /\ tasks[t].pc = "next" /\ tasks[t].j > 0
        /\ IsCoroutine(tasks[t2]) /\ tasks[t2].pc = "created" /\ tasks[t2].passes = 0

\* both premises of C29 matter: with calls of two functions in flight the
\* dict a pass iterates over does change
C29_AnyFunctions ==
    [][\A id \in DictIds :
           (\E t \in TaskIds : Iterating(t, id)) => dicts'[id] = dicts[id]]_vars

====
